---- MODULE Spec2Model ----
(***************************************************************************)
(* Hyperparameter-search orchestrator of deanhorak/snnfw (scripts/).       *)
(*                                                                         *)
(* Numbers.  Python floats are modelled as scaled integers: an             *)
(* edge_threshold is in thousandths (0.15 -> 150, 0.155 -> 155), a         *)
(* similarity_threshold in hundredths (0.7 -> 70), a temporal window in    *)
(* milliseconds (200.0 -> 200), an accuracy in whole abstract points       *)
(* (0 is the float 0.0).  None is the empty sequence <<>> and a value x    *)
(* that may be None is <<x>>.  The time.time() stamp of a record is left   *)
(* out: no operation of the program reads it.                              *)
(***************************************************************************)
EXTENDS Integers, Sequences, FiniteSets, TLC

VARIABLES
    pc,              \* position of the campaign process
    results,         \* HyperparameterOptimizer.results
    best_accuracy,   \* HyperparameterOptimizer.best_accuracy
    best_config,     \* HyperparameterOptimizer.best_config (<<>> is None)
    param_grid,      \* grid_search: the param_grid argument of the running call
    max_experiments, \* grid_search: the max_experiments argument of the running call
    combinations,    \* grid_search: the selected combinations
    loop_i,          \* grid_search: the loop's i (0-based, as enumerate gives it)
    rng,             \* state of the process-wide random generator
    proc,            \* the child process: "none" or "running"
    configFiles,     \* results_dir/config_NNNN.json: run_id -> configuration
    outputFiles,     \* results_dir/output_NNNN.txt: the run_ids that have one
    allResultsFile,  \* results_dir/all_results.json
    summaryFile,     \* results_dir/summary.txt
    fault,           \* "none" while the process runs, else how it died (pc keeps where)
    status,          \* history: what really happened in each appended trial
    callLog,         \* history: one entry per grid_search call
    cfgPc,           \* configuration check: position
    cfgScript,       \* configuration check: the script under test
    cfgIn,           \* configuration check: the assignment given
    cfgOut,          \* configuration check: the configuration returned
    heap,            \* the dictionaries in memory, by address (<<>> is none)
    handles,         \* the configurations create_config has returned
    persistFailed,   \* history: a write of a configuration or of the history raised
    orphan,          \* a program started by an earlier trial is still running
    script,          \* the script whose main() runs
    full_config,     \* hyperparameter_optimization.main: full_config (<<>> before phase 3)
    bestConfigFull,  \* results_dir/best_config_full.json (<<>> is no file)
    swPc,            \* fine sweep: position of main()
    swIdx,           \* fine sweep: candidates the loop has taken
    swResults,       \* fine sweep: main's results, the (candidate, accuracy) pairs
    swBest,          \* fine sweep: best_threshold / best_k (<<>> is None)
    swBestAcc,       \* fine sweep: best_accuracy
    swConfigFiles,   \* fine sweep: the config_*.json files, by the key in their name
    swOutputFiles,   \* fine sweep: the keys that have an output_*.txt
    swSummary,       \* fine sweep: summary.txt (<<>> is no file)
    swBestFile,      \* fine sweep: best_config.json (<<>> is no file)
    stPc,            \* Bayesian study: position of main()
    trials,          \* Bayesian study: study.trials, in memory
    stParams,        \* Bayesian study: the parameters suggested to the running trial
    configsDir,      \* Bayesian study: the files of configs/, by name (<<>> is no file)
    studyFile        \* Bayesian study: the pickled study (<<>> is no file)

campaignVars == <<pc, results, best_accuracy, best_config, param_grid,
                  max_experiments, combinations, loop_i, rng, proc, configFiles,
                  outputFiles, allResultsFile, summaryFile, fault, status,
                  callLog>>
cfgVars == <<cfgPc, cfgScript, cfgIn, cfgOut, heap, handles>>
mainVars == <<script, full_config, bestConfigFull>>
sweepVars == <<swPc, swIdx, swResults, swBest, swBestAcc, swConfigFiles,
               swOutputFiles, swSummary, swBestFile>>
studyVars == <<stPc, trials, stParams, configsDir, studyFile>>
vars == <<campaignVars, cfgVars, persistFailed, orphan, mainVars, sweepVars,
          studyVars>>

(***************************************************************************)
(* Bounds.                                                                 *)
(***************************************************************************)
MaxAcc == 2          \* accuracies are 0..MaxAcc
MaxTrials == 3       \* the campaign of Spec appends at most this many records
MaxAxisLen == 3      \* SpecGrid: values per axis
MaxBudget == 9       \* SpecGrid: max_experiments is 0..MaxBudget
MaxRuns == 2         \* SpecGrid: grid_search calls per behaviour
DomainLen == 3       \* SpecConfig: values tried per parameter
MaxObjects == 3      \* SpecAlias: configurations created per behaviour

None == <<>>
Some(x) == <<x>>

\* configs/emnist_letters_saccades_<name>.json, the files the two Bayesian
\* scripts name.
ConfigNames == {"position", "opt", "best", "opt2", "best_v2"}

Min(a, b) == IF a < b THEN a ELSE b
Range(s) == {s[j] : j \in 1..Len(s)}

(***************************************************************************)
(* Configuration documents.  The leaves kept are the ones some script      *)
(* writes, plus grid_size as a leaf nobody writes.                         *)
(***************************************************************************)
BASE_CONFIG ==
    [network |-> [grid_size |-> 8, temporal_window_ms |-> 200,
                  edge_threshold |-> 150],
     neuron |-> [window_size_ms |-> 200, similarity_threshold |-> 70,
                 max_patterns |-> 100],
     adapters |-> [retina |->
        [temporal_window_ms |-> 200,
         parameters |-> [grid_size |-> 8, edge_threshold |-> 150,
                         neuron_window_size |-> 200, neuron_threshold |-> 70,
                         neuron_max_patterns |-> 100]]],
     training |-> [examples_per_digit |-> 1000, test_images |-> 2000],
     classification |-> [k_neighbors |-> 5]]

EDGE_BASE_CONFIG ==
    [BASE_CONFIG EXCEPT !.training = [examples_per_digit |-> 5000,
                                      test_images |-> 10000]]

EDGE_FINE_BASE_CONFIG ==
    [EDGE_BASE_CONFIG EXCEPT !.network.edge_threshold = 160,
                             !.adapters.retina.parameters.edge_threshold = 160]

SEARCH_SPACE ==
    [edge_threshold |-> <<100, 120, 150, 180, 200, 220, 250>>,
     k_neighbors |-> <<3, 5, 7, 9, 11>>,
     similarity_threshold |-> <<50, 60, 70, 75, 80, 85>>,
     temporal_window_ms |-> <<150, 200, 250>>,
     max_patterns |-> <<50, 75, 100, 150, 200>>]

ParamNames == {"edge_threshold", "k_neighbors", "similarity_threshold",
               "temporal_window_ms", "max_patterns"}

\* create_config with the second edge_threshold write forgotten.
create_config_no_adapter_edge(params) ==
    [BASE_CONFIG EXCEPT
        !.network.edge_threshold = params.edge_threshold,
        !.network.temporal_window_ms = params.temporal_window_ms,
        !.neuron.window_size_ms = params.temporal_window_ms,
        !.neuron.similarity_threshold = params.similarity_threshold,
        !.neuron.max_patterns = params.max_patterns,
        !.adapters.retina.temporal_window_ms = params.temporal_window_ms,
        !.adapters.retina.parameters.neuron_window_size = params.temporal_window_ms,
        !.adapters.retina.parameters.neuron_threshold = params.similarity_threshold,
        !.adapters.retina.parameters.neuron_max_patterns = params.max_patterns,
        !.classification.k_neighbors = params.k_neighbors]

\* Lines 116-130: the writes of create_config into the dictionary config.
update_parameters(config, params) ==
    [config EXCEPT
        !.network.edge_threshold = params.edge_threshold,
        !.network.temporal_window_ms = params.temporal_window_ms,
        !.neuron.window_size_ms = params.temporal_window_ms,
        !.neuron.similarity_threshold = params.similarity_threshold,
        !.neuron.max_patterns = params.max_patterns,
        !.adapters.retina.temporal_window_ms = params.temporal_window_ms,
        !.adapters.retina.parameters.edge_threshold = params.edge_threshold,
        !.adapters.retina.parameters.neuron_window_size = params.temporal_window_ms,
        !.adapters.retina.parameters.neuron_threshold = params.similarity_threshold,
        !.adapters.retina.parameters.neuron_max_patterns = params.max_patterns,
        !.classification.k_neighbors = params.k_neighbors]

\* Lines 112-132: what create_config returns.
create_config(params) == update_parameters(BASE_CONFIG, params)

\* optimize_edge_threshold.py, run_experiment: the configuration it builds.
edge_config(threshold) ==
    [EDGE_BASE_CONFIG EXCEPT
        !.network.edge_threshold = threshold,
        !.adapters.retina.parameters.edge_threshold = threshold]

\* optimize_edge_fine.py, run_experiment: the configuration it builds.
edge_fine_config(threshold) ==
    [EDGE_FINE_BASE_CONFIG EXCEPT
        !.network.edge_threshold = threshold,
        !.adapters.retina.parameters.edge_threshold = threshold]

EDGE_THRESHOLDS == <<100, 120, 130, 140, 150, 160, 170, 180, 200>>
EDGE_FINE_THRESHOLDS == <<155, 158, 160, 162, 165>>

(***************************************************************************)
(* grid_search: the combinations.                                          *)
(* A param_grid is a dict, modelled as the sequence of its items in        *)
(* insertion order: <<[name |-> n1, values |-> <<...>>], ...>>.            *)
(***************************************************************************)
RECURSIVE Flatten(_)
Flatten(ss) == IF ss = <<>> THEN <<>> ELSE Head(ss) \o Flatten(Tail(ss))

\* One round of itertools.product: [x + [y] for x in result for y in pool].
ProductStep(result, pool) ==
    Flatten([a \in 1..Len(result) |->
                [b \in 1..Len(pool) |-> Append(result[a], pool[b])]])

\* itertools.product(*pools): result = [[]], then one round per pool.
RECURSIVE Product(_)
Product(pools) ==
    IF pools = <<>> THEN << <<>> >>
    ELSE ProductStep(Product(SubSeq(pools, 1, Len(pools) - 1)),
                     pools[Len(pools)])

param_names_of(grid) == [a \in 1..Len(grid) |-> grid[a].name]
param_values_of(grid) == [a \in 1..Len(grid) |-> grid[a].values]

(***************************************************************************)
(* The random module.  The generator's state is "entropy" (seeded by the   *)
(* operating system when the module is imported), "seed42" (right after    *)
(* random.seed(42)) or "advanced" (after draws).  Draw42[n][k] is what the *)
(* k-th call randbelow(n - k + 1) returns while sampling from a population *)
(* of n right after random.seed(42) (CPython 3, Mersenne Twister); from    *)
(* any other state a draw can be any value below its argument.             *)
(***************************************************************************)
Draw42 ==
    << <<0>>,
       <<0, 0>>,
       <<2, 0, 0>>,
       <<0, 0, 1, 0>>,
       <<0, 0, 2, 1, 0>>,
       <<5, 0, 0, 2, 1, 0>>,
       <<5, 0, 0, 2, 0, 0, 0>>,
       <<1, 0, 5, 2, 1, 0, 0, 0>>,
       <<1, 0, 5, 2, 1, 1, 0, 0, 0>>,
       <<1, 0, 4, 1, 1, 1, 0, 2, 0, 0>>,
       <<10, 1, 0, 4, 1, 1, 1, 0, 2, 0, 0>>,
       <<10, 1, 0, 4, 3, 1, 1, 0, 0, 2, 1, 0>>,
       <<10, 1, 0, 4, 3, 3, 1, 5, 0, 0, 2, 1, 0>>,
       <<10, 1, 0, 4, 3, 3, 2, 5, 0, 4, 0, 2, 1, 0>>,
       <<10, 1, 0, 11, 4, 3, 3, 2, 5, 0, 4, 0, 2, 1, 0>>,
       <<3, 0, 11, 4, 3, 3, 2, 1, 1, 4, 3, 0, 0, 0, 0, 0>>,
       <<3, 0, 11, 4, 3, 3, 2, 1, 8, 1, 4, 3, 0, 0, 0, 0, 0>> >>

\* The sequences of k draws randbelow(n), randbelow(n-1), ... a generator in
\* state st can give.  After seed 42 there is one.  A generator in any other
\* state can give every sequence within the ranges; no call of the program
\* samples from one (random.seed(42) precedes every random.sample), and n of
\* these sequences stand for them here: the draws that are e wherever e is
\* in range, for each e below n.
Draws(st, n, k) ==
    IF k = 0 THEN {<<>>}
    ELSE IF st = "seed42"
         THEN {SubSeq(Draw42[n], 1, k)}
         ELSE {[a \in 1..k |-> Min(e, n - a)] : e \in 0..(n - 1)}

\* random.sample(population, k), the branch for n <= setsize (setsize >= 21):
\* result[i] = pool[j]; pool[j] = pool[n - i - 1], with j the i-th draw.
RECURSIVE SamplePool(_, _, _)
SamplePool(pool, draws, n) ==
    IF draws = <<>> THEN <<>>
    ELSE LET j == Head(draws) + 1
         IN <<pool[j]>> \o
            SamplePool([pool EXCEPT ![j] = pool[n]], Tail(draws), n - 1)

\* random.seed(42) omitted: the generator stays in the state it was in.
random_seed_omitted(st) == st

\* random.seed(42).
random_seed(st) == "seed42"

\* Lines 196-200 with the test written >=.
needs_sampling_ge(n, budget) == n >= budget

\* Line 197: len(combinations) > max_experiments.
needs_sampling(n, budget) == n > budget

\* The combinations grid_search may select (one, unless the generator is
\* in an unknown state).
Selections(st, grid, budget) ==
    LET all == Product(param_values_of(grid))
    IN IF needs_sampling(Len(all), budget)
       THEN {SamplePool(all, d, Len(all)) :
                d \in Draws(random_seed(st), Len(all), budget)}
       ELSE {all}

\* The generator after the selection.
rng_after(st, grid, budget) ==
    IF needs_sampling(Len(Product(param_values_of(grid))), budget)
    THEN "advanced" ELSE st

\* params.get(name, default) on params = dict(zip(param_names, combo)).
Get(names, combo, name, default) ==
    IF \E a \in 1..Len(names) : names[a] = name
    THEN combo[CHOOSE a \in 1..Len(names) : names[a] = name]
    ELSE default

\* Lines 208-214.
full_params_of(names, combo) ==
    [edge_threshold |-> Get(names, combo, "edge_threshold", 150),
     k_neighbors |-> Get(names, combo, "k_neighbors", 5),
     similarity_threshold |-> Get(names, combo, "similarity_threshold", 70),
     temporal_window_ms |-> Get(names, combo, "temporal_window_ms", 200),
     max_patterns |-> Get(names, combo, "max_patterns", 100)]

(***************************************************************************)
(* run_experiment: the external program, as the evaluator sees it.         *)
(* An outcome of the child process is                                      *)
(*   kind     "completed" (subprocess.run returned), "timeout"             *)
(*            (TimeoutExpired) or "oserror" (subprocess.run raised);       *)
(*   match    what re.search finds for 'Overall Accuracy: ([\d.]+)%':      *)
(*            "none", "float" (group 1 is a float literal) or "badfloat"   *)
(*            (group 1 such as "9.5.1", on which float() raises);          *)
(*   value    the float of group 1;                                        *)
(*   digits   the per-digit lines of the output, as the per_digit dict;    *)
(*   writable whether output_NNNN.txt can be written;                      *)
(*   survives whether the program outlives the child process.              *)
(***************************************************************************)
NoDigits == <<>>
SomeDigits == << <<0, 1>> >>

Completed(match, value, digits, writable) ==
    [kind |-> "completed", match |-> match, value |-> value,
     digits |-> digits, writable |-> writable, survives |-> FALSE]
TimedOut == [kind |-> "timeout", match |-> "none", value |-> 0,
             digits |-> NoDigits, writable |-> TRUE, survives |-> FALSE]
OsError == [kind |-> "oserror", match |-> "none", value |-> 0,
            digits |-> NoDigits, writable |-> TRUE, survives |-> FALSE]
\* The timeout of a trial whose program goes on running: subprocess.run
\* kills the process it started, which is bash; the program is a child of
\* that bash unless bash replaced itself by it.
TimedOutSurvives == [TimedOut EXCEPT !.survives = TRUE]

\* Line 151: when the timeout expires subprocess.run kills its child, the
\* bash of line 146, and waits for that bash only; left_running says whether
\* the program bash started is still running when run_experiment returns.
left_running_never(o) == FALSE
left_running(o) == o.survives

Outcomes ==
    {Completed("float", a, SomeDigits, TRUE) : a \in 0..MaxAcc}
    \cup {Completed("float", MaxAcc, SomeDigits, FALSE)}
    \cup {Completed("none", 0, d, TRUE) : d \in {NoDigits, SomeDigits}}
    \cup {Completed("badfloat", 0, NoDigits, TRUE)}
    \cup {TimedOut, OsError}

NominalOutcomes == {Completed("float", 1, SomeDigits, TRUE)}

\* What the trial really was (spec.md, Trial Record status).
StatusOf(o) ==
    CASE o.kind = "timeout" -> "timeout"
      [] o.kind = "oserror" -> "error"
      [] o.kind = "completed" /\ o.match = "badfloat" -> "parse-failure"
      [] o.kind = "completed" /\ ~o.writable -> "error"
      [] o.kind = "completed" /\ o.match = "none" -> "parse-failure"
      [] OTHER -> "ok"

Returns(accuracy, per_digit, wrote) ==
    [raised |-> FALSE, accuracy |-> accuracy, per_digit |-> per_digit,
     wrote |-> wrote]
Raises == [raised |-> TRUE, accuracy |-> 0, per_digit |-> NoDigits,
           wrote |-> FALSE]

\* Lines 150-181 without the two except clauses.
run_experiment_no_except(o) ==
    IF o.kind # "completed" \/ o.match = "badfloat" \/ ~o.writable
    THEN Raises
    ELSE Returns(IF o.match = "float" THEN o.value ELSE 0, o.digits, TRUE)

\* Lines 150-181: what run_experiment hands back for an outcome.
run_experiment(o) ==
    CASE o.kind = "timeout" -> Returns(0, NoDigits, FALSE)
      [] o.kind = "oserror" -> Returns(0, NoDigits, FALSE)
      [] o.match = "badfloat" -> Returns(0, NoDigits, FALSE)
      [] ~o.writable -> Returns(0, NoDigits, FALSE)
      [] OTHER -> Returns(IF o.match = "float" THEN o.value ELSE 0,
                          o.digits, TRUE)

\* save_results called once, after the loop's last round (batched).
save_only_at_end(round, rounds) == round + 1 = rounds

\* Lines 237-238: save_results is called in every round of the loop.
save_after_trial(round, rounds) == TRUE

\* The write wrapped in a try whose except clause goes on.
Caught(exception) == "none"

\* Lines 137-139 and 243-264: the writes of config_NNNN.json, all_results.json
\* and summary.txt stand in no try, and neither do grid_search's calls of
\* run_experiment and save_results nor main's calls of grid_search: an
\* exception raised there ends the process.
Uncaught(exception) == exception

\* The run_id taken from the loop's i, which starts again in every call.
run_id_of_round(rs, round) == round

\* Lines 219 and 222: len(self.results).
run_id_of(rs, round) == Len(rs)

\* The configuration left unwritten.
WriteConfigSkipped(files, run_id, config) == files

\* Lines 135-139: open(config_NNNN.json, 'w') and json.dump(config).
WriteConfig(files, run_id, config) ==
    {f \in files : f.run_id # run_id}
        \cup {[run_id |-> run_id, config |-> config]}

\* self.results[-1] = record once there is a record: the last record is
\* replaced.
replace_last(rs, record) ==
    IF rs = <<>> THEN <<record>> ELSE [rs EXCEPT ![Len(rs)] = record]

\* Line 228, self.results.append(...): the only statement of the class that
\* changes the list; no record in it is written again.
append_record(rs, record) == Append(rs, record)

\* Line 232 written >=.
is_new_best_ge(accuracy, best) == accuracy >= best

\* Line 232: accuracy > self.best_accuracy.
is_new_best(accuracy, best) == accuracy > best

(***************************************************************************)
(* save_results: the two files.                                            *)
(***************************************************************************)
NoFile == [state |-> "absent", results |-> <<>>, best_accuracy |-> 0,
           best_config |-> None]
\* open(path, 'w') has truncated the file and nothing has reached it yet.
EmptyFile == [NoFile EXCEPT !.state = "empty"]
\* Some prefix of the text has reached the file.
PartialFile == [NoFile EXCEPT !.state = "partial"]

\* json.dump of lines 244-248.
DumpedFile(rs, acc, cfg) ==
    [state |-> "complete", results |-> rs, best_accuracy |-> acc,
     best_config |-> cfg]

\* The place of record a of rs in sorted(results, key=accuracy,
\* reverse=True): after every record of greater accuracy and, the sort
\* being stable, after the earlier records of equal accuracy.
PlaceOf(rs, a) ==
    1 + Cardinality({b \in 1..Len(rs) :
                        \/ rs[b].accuracy > rs[a].accuracy
                        \/ rs[b].accuracy = rs[a].accuracy /\ b < a})

sorted_results(rs) ==
    [k \in 1..Len(rs) |-> rs[CHOOSE a \in 1..Len(rs) : PlaceOf(rs, a) = k]]

\* Lines 252-264.
SummaryText(rs, acc, cfg) ==
    [state |-> "complete", total |-> Len(rs), best_accuracy |-> acc,
     best_config |-> cfg,
     top |-> LET srt == sorted_results(rs)
             IN [a \in 1..Min(10, Len(srt)) |->
                    <<srt[a].accuracy, srt[a].params>>]]
NoSummary == [state |-> "absent", total |-> 0, best_accuracy |-> 0,
              best_config |-> None, top |-> <<>>]
EmptySummary == [NoSummary EXCEPT !.state = "empty"]
PartialSummary == [NoSummary EXCEPT !.state = "partial"]

(***************************************************************************)
(* The campaign: one HyperparameterOptimizer and the grid_search calls     *)
(* made on it.                                                             *)
(***************************************************************************)
InitCampaign ==
    /\ fault = "none"
    /\ pc = "main"
    /\ results = <<>>
    /\ best_accuracy = 0
    /\ best_config = None
    /\ param_grid = <<>>
    /\ max_experiments = 0
    /\ combinations = <<>>
    /\ loop_i = 0
    /\ rng = "entropy"
    /\ proc = "none"
    /\ configFiles = {}
    /\ outputFiles = {}
    /\ allResultsFile = NoFile
    /\ summaryFile = NoSummary
    /\ fault = "none"
    /\ status = <<>>
    /\ callLog = <<>>

\* The address of the module's BASE_CONFIG dictionary.
TEMPLATE == 0

\* The module is imported: BASE_CONFIG is the one dictionary there is.
InitHeap ==
    /\ heap = [a \in 0..MaxObjects |->
                  IF a = TEMPLATE THEN Some(BASE_CONFIG) ELSE None]
    /\ handles = <<>>

InitCfgIdle ==
    /\ cfgPc = "idle"
    /\ cfgScript = "none"
    /\ cfgIn = <<>>
    /\ cfgOut = None
    /\ InitHeap

\* No fine sweep runs.
InitSweepIdle ==
    /\ swPc = "idle"
    /\ swIdx = 0
    /\ swResults = <<>>
    /\ swBest = None
    /\ swBestAcc = 0
    /\ swConfigFiles = {}
    /\ swOutputFiles = {}
    /\ swSummary = None
    /\ swBestFile = None

\* No Bayesian study runs.
InitStudyIdle ==
    /\ stPc = "idle"
    /\ trials = <<>>
    /\ stParams = None
    /\ configsDir = [name \in ConfigNames |-> None]
    /\ studyFile = None

\* main() of hyperparameter_optimization.py before line 267, nothing written.
InitMainVars ==
    /\ full_config = None
    /\ bestConfigFull = None
    /\ persistFailed = FALSE
    /\ orphan = FALSE

Axis(name, values) == [name |-> name, values |-> values]
Input(grid, budget) == [grid |-> grid, budget |-> budget]

\* The grid_search calls of Spec: a sampled two-axis grid, a one-combination
\* grid of the phase-2 axes, and a grid over an axis that is no parameter.
CampaignInputs ==
    {Input(<<Axis("edge_threshold", <<100, 200>>),
             Axis("k_neighbors", <<3, 7>>)>>, 2),
     Input(<<Axis("similarity_threshold", <<60>>),
             Axis("max_patterns", <<75>>)>>, 12),
     Input(<<Axis("learning_rate", <<1, 2>>)>>, 2)}

\* grid_search, lines 183-202: the call and the selection of combinations.
CallGridSearch(inputs, cap) ==
    /\ fault = "none"
    /\ pc = "main"
    /\ \E in \in inputs :
         \E sel \in Selections(rng, in.grid, in.budget) :
            /\ Len(results) + Len(sel) <= cap
            /\ param_grid' = in.grid
            /\ max_experiments' = in.budget
            /\ combinations' = sel
            /\ rng' = rng_after(rng, in.grid, in.budget)
            /\ callLog' = Append(callLog,
                   [grid |-> in.grid, budget |-> in.budget,
                    first |-> Len(results), selected |-> sel,
                    visited |-> <<>>, returned |-> FALSE,
                    carried |-> [accuracy |-> best_accuracy,
                                 config |-> best_config]])
    /\ loop_i' = 0
    /\ pc' = "loop"
    /\ UNCHANGED <<results, best_accuracy, best_config, proc, configFiles,
                   outputFiles, allResultsFile, summaryFile, fault, status>>
    /\ UNCHANGED <<cfgVars, persistFailed, orphan, mainVars, sweepVars, studyVars>>

CurrentCombo == combinations[loop_i + 1]
CurrentParams == full_params_of(param_names_of(param_grid), CurrentCombo)

\* Lines 204-219 and 134-151: the loop takes the next combination, builds
\* its configuration, writes config_NNNN.json and starts the child process.
StartTrial ==
    /\ fault = "none"
    /\ pc = "loop"
    /\ loop_i < Len(combinations)
    /\ configFiles' = WriteConfig(configFiles, run_id_of(results, loop_i),
                                  create_config(CurrentParams))
    /\ proc' = "running"
    /\ pc' = "running"
    /\ callLog' = [callLog EXCEPT ![Len(callLog)].visited =
                      Append(@, CurrentCombo)]
    /\ UNCHANGED <<results, best_accuracy, best_config, param_grid,
                   max_experiments, combinations, loop_i, rng, outputFiles,
                   allResultsFile, summaryFile, fault, status>>
    /\ UNCHANGED <<cfgVars, persistFailed, orphan, mainVars, sweepVars, studyVars>>

\* Lines 137-139: open(config_path, 'w') or json.dump raises; nothing
\* catches it.
ConfigWriteFails ==
    /\ fault = "none"
    /\ pc = "loop"
    /\ loop_i < Len(combinations)
    /\ fault' = Uncaught("PersistenceError")
    /\ persistFailed' = TRUE
    /\ UNCHANGED <<pc, results, best_accuracy, best_config, param_grid,
                   max_experiments, combinations, loop_i, rng, proc,
                   configFiles, outputFiles, allResultsFile, summaryFile,
                   status, callLog>>
    /\ UNCHANGED <<cfgVars, orphan, mainVars, sweepVars, studyVars>>

\* Lines 151-181 and 219-235: the child process ends one way or another,
\* run_experiment returns, the record is appended and the best updated.
EndTrial(outcomes) ==
    /\ fault = "none"
    /\ pc = "running"
    /\ \E o \in outcomes :
         LET ret == run_experiment(o)
             run_id == run_id_of(results, loop_i)
             full_params == CurrentParams
         IN /\ orphan' = (orphan \/ left_running(o))
            /\ IF ret.raised
               THEN /\ pc' = pc
                    /\ fault' = "EvaluationError"
                    /\ UNCHANGED <<results, best_accuracy, best_config,
                                   outputFiles, status, loop_i>>
               ELSE /\ pc' = IF save_after_trial(loop_i, Len(combinations))
                             THEN "save" ELSE "loop"
                    /\ loop_i' = IF save_after_trial(loop_i, Len(combinations))
                                 THEN loop_i ELSE loop_i + 1
                    /\ fault' = fault
                    /\ outputFiles' = IF ret.wrote
                                      THEN outputFiles \cup {run_id}
                                      ELSE outputFiles
                    /\ results' = append_record(results,
                           [run_id |-> run_id, params |-> full_params,
                            accuracy |-> ret.accuracy,
                            per_digit |-> ret.per_digit])
                    /\ status' = Append(status, StatusOf(o))
                    /\ IF is_new_best(ret.accuracy, best_accuracy)
                       THEN /\ best_accuracy' = ret.accuracy
                            /\ best_config' = Some(full_params)
                       ELSE UNCHANGED <<best_accuracy, best_config>>
    /\ proc' = "none"
    /\ UNCHANGED <<param_grid, max_experiments, combinations, rng,
                   configFiles, allResultsFile, summaryFile, callLog>>
    /\ UNCHANGED <<cfgVars, persistFailed, mainVars, sweepVars, studyVars>>

\* Line 243: open(results_file, 'w') truncates all_results.json.
SaveOpen ==
    /\ fault = "none"
    /\ pc = "save"
    /\ allResultsFile' = EmptyFile
    /\ pc' = "saving"
    /\ UNCHANGED <<results, best_accuracy, best_config, param_grid,
                   max_experiments, combinations, loop_i, rng, proc,
                   configFiles, outputFiles, summaryFile, fault, status,
                   callLog>>
    /\ UNCHANGED <<cfgVars, persistFailed, orphan, mainVars, sweepVars, studyVars>>

\* Line 243: open(results_file, 'w') raises; nothing catches it.
SaveFails ==
    /\ fault = "none"
    /\ pc = "save"
    /\ fault' = Uncaught("PersistenceError")
    /\ persistFailed' = TRUE
    /\ UNCHANGED <<pc, results, best_accuracy, best_config, param_grid,
                   max_experiments, combinations, loop_i, rng, proc,
                   configFiles, outputFiles, allResultsFile, summaryFile,
                   status, callLog>>
    /\ UNCHANGED <<cfgVars, orphan, mainVars, sweepVars, studyVars>>

\* Lines 244-252: the history is dumped and the file closed; summary.txt is
\* opened, which truncates it.
SaveDump ==
    /\ fault = "none"
    /\ pc = "saving"
    /\ allResultsFile' = DumpedFile(results, best_accuracy, best_config)
    /\ summaryFile' = EmptySummary
    /\ pc' = "summary"
    /\ UNCHANGED <<results, best_accuracy, best_config, param_grid,
                   max_experiments, combinations, loop_i, rng, proc,
                   configFiles, outputFiles, fault, status, callLog>>
    /\ UNCHANGED <<cfgVars, persistFailed, orphan, mainVars, sweepVars, studyVars>>

\* Lines 253-264: the summary is written; the loop goes to its next round.
SaveSummary ==
    /\ fault = "none"
    /\ pc = "summary"
    /\ summaryFile' = SummaryText(results, best_accuracy, best_config)
    /\ loop_i' = loop_i + 1
    /\ pc' = "loop"
    /\ UNCHANGED <<results, best_accuracy, best_config, param_grid,
                   max_experiments, combinations, rng, proc, configFiles,
                   outputFiles, allResultsFile, fault, status, callLog>>
    /\ UNCHANGED <<cfgVars, persistFailed, orphan, mainVars, sweepVars, studyVars>>

\* Line 204: the loop is exhausted and grid_search returns.
GridSearchReturn ==
    /\ fault = "none"
    /\ pc = "loop"
    /\ loop_i >= Len(combinations)
    /\ pc' = "main"
    /\ callLog' = [callLog EXCEPT ![Len(callLog)].returned = TRUE]
    /\ UNCHANGED <<results, best_accuracy, best_config, param_grid,
                   max_experiments, combinations, loop_i, rng, proc,
                   configFiles, outputFiles, allResultsFile, summaryFile,
                   fault, status>>
    /\ UNCHANGED <<cfgVars, persistFailed, orphan, mainVars, sweepVars, studyVars>>

\* The process is killed (power loss, SIGKILL) wherever it is; pc keeps the
\* place.  A file that is open for writing keeps what had reached it:
\* nothing, or a prefix of the text.
Crash ==
    /\ fault = "none"
    /\ fault' = "crash"
    /\ proc' = "none"
    /\ allResultsFile' \in IF pc = "saving" THEN {EmptyFile, PartialFile}
                           ELSE {allResultsFile}
    /\ summaryFile' \in IF pc = "summary" THEN {EmptySummary, PartialSummary}
                        ELSE {summaryFile}
    /\ UNCHANGED <<pc, results, best_accuracy, best_config, param_grid,
                   max_experiments, combinations, loop_i, rng, configFiles,
                   outputFiles, status, callLog>>
    /\ UNCHANGED <<cfgVars, persistFailed, orphan, mainVars, sweepVars, studyVars>>

Init ==
    /\ InitCampaign
    /\ InitCfgIdle
    /\ InitMainVars
    /\ InitSweepIdle
    /\ InitStudyIdle
    /\ script = "hyperparameter_optimization"

Next ==
    \/ CallGridSearch(CampaignInputs, MaxTrials)
    \/ StartTrial
    \/ ConfigWriteFails
    \/ EndTrial(Outcomes)
    \/ SaveOpen
    \/ SaveFails
    \/ SaveDump
    \/ SaveSummary
    \/ GridSearchReturn
    \/ Crash

Spec == Init /\ [][Next]_vars

(***************************************************************************)
(* Claims about the campaign (checked under Spec).                         *)
(***************************************************************************)
\* Record m is the record with the greatest accuracy and, among those, the
\* lowest run_id.
IsEarliestMax(m) ==
    /\ \A b \in 1..Len(results) : results[b].accuracy <= results[m].accuracy
    /\ \A b \in 1..(m - 1) : results[b].accuracy < results[m].accuracy

BestIsRecord(m) ==
    /\ best_accuracy = results[m].accuracy
    /\ best_config = Some(results[m].params)

\* C1 (as amended): once records have been appended, best_accuracy and
\* best_config are the accuracy and params of the record with the greatest
\* accuracy, the lowest run_id among equals, provided that accuracy is above
\* 0.0; when every record has accuracy 0.0, best_accuracy is 0.0 and
\* best_config is None.
C1_BestIsEarliestMax ==
    Len(results) >= 1 =>
        \E m \in 1..Len(results) :
            /\ IsEarliestMax(m)
            /\ IF results[m].accuracy > 0
               THEN BestIsRecord(m)
               ELSE best_accuracy = 0 /\ best_config = None

\* C1 as stated: for any objectives, best_config is the params of the
\* earliest record of greatest accuracy.
C1_Original ==
    Len(results) >= 1 =>
        \E m \in 1..Len(results) : IsEarliestMax(m) /\ BestIsRecord(m)

\* C1's case: records of two grid_search calls, two of them sharing the
\* greatest accuracy with different params, the best being the earlier.
C1_Witness ==
    /\ Len(callLog) >= 2
    /\ \E a, b \in 1..Len(results) :
         /\ a < b
         /\ IsEarliestMax(a)
         /\ results[b].accuracy = results[a].accuracy
         /\ results[b].params # results[a].params
         /\ results[a].accuracy > 0
         /\ BestIsRecord(a)

\* all_results.json holds exactly the records rs, with their best.
FileHolds(rs, acc, cfg) ==
    IF rs = <<>>
    THEN allResultsFile.state = "absent"
    ELSE /\ allResultsFile.state = "complete"
         /\ allResultsFile.results = rs
         /\ allResultsFile.best_accuracy = acc
         /\ allResultsFile.best_config = cfg

\* C2: while the child process of trial i+1 exists, and after a crash at
\* that point, all_results.json holds exactly R1..Ri, in order, with the best
\* of R1..Ri.
C2_SavedBeforeNextTrial ==
    pc = "running" => FileHolds(results, best_accuracy, best_config)

\* C2's case: the process died while the third trial was being evaluated
\* and the file holds the two records before it.
C2_Witness ==
    /\ pc = "running"
    /\ fault = "crash"
    /\ Len(results) = 2
    /\ allResultsFile.state = "complete"
    /\ allResultsFile.results = results

\* C3 as stated: at every point, a crash in the middle of save_results
\* included, all_results.json holds exactly R1..R(i-1) or exactly R1..Ri.
C3_AtomicRewrite ==
    Len(results) >= 1 =>
        \/ FileHolds(results, best_accuracy, best_config)
        \/ /\ pc \in {"save", "saving"}
           /\ IF Len(results) = 1
              THEN allResultsFile.state = "absent"
              ELSE /\ allResultsFile.state = "complete"
                   /\ allResultsFile.results =
                          SubSeq(results, 1, Len(results) - 1)

Failures == {"timeout", "error", "parse-failure"}
CurrentCall == callLog[Len(callLog)]

\* C4: a trial that timed out, could not run or gave no parsable accuracy
\* never ends the campaign with an exception of the evaluator; its record
\* has accuracy 0.0; every trial started has exactly one record once it has
\* ended; and a grid_search that returns has evaluated every combination it
\* selected.
C4_EvaluatorNeverRaises ==
    /\ fault # "EvaluationError"
    /\ \A a \in 1..Len(results) :
         status[a] \in Failures => results[a].accuracy = 0
    /\ callLog # <<>> =>
         /\ CurrentCall.first + Len(CurrentCall.visited) =
               Len(results) + (IF pc = "running" THEN 1 ELSE 0)
         /\ CurrentCall.returned =>
               CurrentCall.visited = CurrentCall.selected

\* C4's case: a grid_search returned after a failed trial followed by a
\* trial that ran, and all three kinds of failure have occurred.
C4_Witness ==
    /\ Failures \subseteq Range(status)
    /\ callLog # <<>>
    /\ CurrentCall.returned
    /\ Len(CurrentCall.visited) = 2
    /\ status[CurrentCall.first + 1] \in Failures
    /\ Len(results) = CurrentCall.first + 2

\* C5 as stated: after run_experiment has returned for run_id r, the file
\* output_r.txt exists, whatever the outcome.
C5_OutputAlwaysPersisted ==
    \A a \in 1..Len(results) : results[a].run_id \in outputFiles

\* C6 as stated: trials that ended differently (ok, timeout, error,
\* parse-failure) leave records that differ in what they record of the
\* outcome.
C6_StatusDistinguishable ==
    \A a, b \in 1..Len(results) :
        status[a] # status[b] =>
            <<results[a].accuracy, results[a].per_digit>> #
            <<results[b].accuracy, results[b].per_digit>>

HasUnknownAxis(grid) ==
    \E a \in 1..Len(grid) : grid[a].name \notin ParamNames

\* C10 as stated: a grid_search whose grid names an axis that is none of the
\* five parameters evaluates no trial.
C10_UnknownAxisAborts ==
    \A c \in 1..Len(callLog) :
        HasUnknownAxis(callLog[c].grid) => callLog[c].visited = <<>>

(***************************************************************************)
(* SpecGrid: grid_search over grids of every small shape, run and then     *)
(* run again with the same arguments, the external program behaving.       *)
(***************************************************************************)
AxisNames == <<"edge_threshold", "k_neighbors", "similarity_threshold">>

\* The grid of the given axis sizes; axis a has the values 10a+1, 10a+2, ...
ShapeGrid(sizes) ==
    [a \in 1..Len(sizes) |->
        Axis(AxisNames[a], [b \in 1..sizes[a] |-> 10 * a + b])]

Shapes ==
    {<<a>> : a \in 0..MaxAxisLen}
    \cup {<<a, b>> : a, b \in 0..MaxAxisLen}
    \cup {<<2, 2, 2>>}

GridInputs ==
    IF callLog = <<>>
    THEN {Input(ShapeGrid(sh), k) : sh \in Shapes, k \in 0..MaxBudget}
    ELSE IF Len(callLog) < MaxRuns
         THEN {Input(callLog[1].grid, callLog[1].budget)}
         ELSE {}

NextGrid ==
    \/ CallGridSearch(GridInputs, MaxRuns * MaxBudget)
    \/ StartTrial
    \/ EndTrial(NominalOutcomes)
    \/ SaveOpen
    \/ SaveDump
    \/ SaveSummary
    \/ GridSearchReturn

SpecGrid == Init /\ [][NextGrid]_vars

\* n_a * ... * n_k of the axes from a on.
RECURSIVE SizeFrom(_, _)
SizeFrom(grid, a) ==
    IF a > Len(grid) THEN 1 ELSE Len(grid[a].values) * SizeFrom(grid, a + 1)

\* The a-th coordinate of the j-th combination (j from 1) in odometer order:
\* the leftmost axis varies slowest.
Odometer(grid, j, a) ==
    grid[a].values[(((j - 1) \div SizeFrom(grid, a + 1))
                       % Len(grid[a].values)) + 1]

\* C7: a grid_search whose max_experiments is at least the product of the
\* axis sizes (equal included) evaluates exactly that many combinations, each
\* once, in odometer order, and appends their records in that order.
C7_FullGridInOdometerOrder ==
    \A c \in 1..Len(callLog) :
        LET call == callLog[c]
            size == SizeFrom(call.grid, 1)
        IN (call.returned /\ call.budget >= size) =>
             /\ Len(call.visited) = size
             /\ \A j \in 1..size :
                  /\ Len(call.visited[j]) = Len(call.grid)
                  /\ \A a \in 1..Len(call.grid) :
                       call.visited[j][a] = Odometer(call.grid, j, a)
                  /\ results[call.first + j].params =
                        full_params_of(param_names_of(call.grid), call.visited[j])
             /\ \A j, k \in 1..size : j # k => call.visited[j] # call.visited[k]

\* C7's case: the grid a:[.,.], b:[.,.] with a budget above 4 has returned
\* after 4 trials, and so has a grid whose budget equals its size of 9.
C7_Witness ==
    \E c \in 1..Len(callLog) :
        /\ callLog[c].returned
        /\ Len(callLog[c].grid) = 2
        /\ SizeFrom(callLog[c].grid, 1) = 4
        /\ callLog[c].budget > 4
        /\ Len(callLog[c].visited) = 4
        /\ callLog[c].visited[2] = <<11, 22>>
        /\ callLog[c].visited[3] = <<12, 21>>

\* C8: a grid_search whose max_experiments is below the product of the axis
\* sizes evaluates exactly max_experiments combinations, all of them in the
\* product and no two of them the same, and two calls with the same grid and
\* max_experiments select the same combinations in the same order.
C8_SeededSubsample ==
    \A c \in 1..Len(callLog) :
        LET call == callLog[c]
        IN call.budget < SizeFrom(call.grid, 1) =>
             /\ Len(call.selected) = call.budget
             /\ \A j \in 1..Len(call.selected) :
                  /\ Len(call.selected[j]) = Len(call.grid)
                  /\ \A a \in 1..Len(call.grid) :
                       call.selected[j][a] \in Range(call.grid[a].values)
             /\ \A j, k \in 1..Len(call.selected) :
                  j # k => call.selected[j] # call.selected[k]
             /\ call.returned => call.visited = call.selected
             /\ \A d \in 1..Len(callLog) :
                  (callLog[d].grid = call.grid /\ callLog[d].budget = call.budget)
                  => callLog[d].selected = call.selected

\* C8's case: two calls with the same 3x3 grid and a budget of 4 have both
\* returned, and the selection is not the first 4 combinations.
C8_Witness ==
    /\ Len(callLog) = 2
    /\ callLog[1].returned /\ callLog[2].returned
    /\ SizeFrom(callLog[1].grid, 1) = 9
    /\ callLog[1].budget = 4
    /\ Len(callLog[2].visited) = 4
    /\ callLog[2].grid = callLog[1].grid
    /\ callLog[2].budget = callLog[1].budget
    /\ callLog[1].visited # SubSeq(Product(param_values_of(callLog[1].grid)), 1, 4)

(***************************************************************************)
(* SpecConfig: the configuration each script builds from an assignment.    *)
(***************************************************************************)
FirstOf(seq) == {seq[a] : a \in 1..Min(DomainLen, Len(seq))}

Assignments ==
    [edge_threshold : FirstOf(SEARCH_SPACE.edge_threshold),
     k_neighbors : FirstOf(SEARCH_SPACE.k_neighbors),
     similarity_threshold : FirstOf(SEARCH_SPACE.similarity_threshold),
     temporal_window_ms : FirstOf(SEARCH_SPACE.temporal_window_ms),
     max_patterns : FirstOf(SEARCH_SPACE.max_patterns)]

InitConfig ==
    /\ InitCampaign
    /\ InitMainVars
    /\ InitSweepIdle
    /\ InitStudyIdle
    /\ script = "hyperparameter_optimization"
    /\ cfgPc = "start"
    /\ cfgOut = None
    /\ InitHeap
    /\ \/ cfgScript = "hyperparameter_optimization" /\ cfgIn \in Assignments
       \/ cfgScript = "optimize_edge_threshold" /\ cfgIn \in Range(EDGE_THRESHOLDS)
       \/ cfgScript = "optimize_edge_fine" /\ cfgIn \in Range(EDGE_FINE_THRESHOLDS)

\* hyperparameter_optimization.py, create_config(params).
CreateConfig ==
    /\ cfgPc = "start"
    /\ cfgScript = "hyperparameter_optimization"
    /\ cfgOut' = Some(create_config(cfgIn))
    /\ cfgPc' = "done"
    /\ UNCHANGED <<cfgScript, cfgIn, heap, handles>>
    /\ UNCHANGED <<campaignVars, persistFailed, orphan, mainVars, sweepVars, studyVars>>

\* optimize_edge_threshold.py, run_experiment(threshold), lines 77-79.
EdgeConfig ==
    /\ cfgPc = "start"
    /\ cfgScript = "optimize_edge_threshold"
    /\ cfgOut' = Some(edge_config(cfgIn))
    /\ cfgPc' = "done"
    /\ UNCHANGED <<cfgScript, cfgIn, heap, handles>>
    /\ UNCHANGED <<campaignVars, persistFailed, orphan, mainVars, sweepVars, studyVars>>

\* optimize_edge_fine.py, run_experiment(threshold), lines 76-78.
EdgeFineConfig ==
    /\ cfgPc = "start"
    /\ cfgScript = "optimize_edge_fine"
    /\ cfgOut' = Some(edge_fine_config(cfgIn))
    /\ cfgPc' = "done"
    /\ UNCHANGED <<cfgScript, cfgIn, heap, handles>>
    /\ UNCHANGED <<campaignVars, persistFailed, orphan, mainVars, sweepVars, studyVars>>

NextConfig == CreateConfig \/ EdgeConfig \/ EdgeFineConfig

SpecConfig == InitConfig /\ [][NextConfig]_vars

EdgeMirrors(config, value) ==
    /\ config.network.edge_threshold = value
    /\ config.adapters.retina.parameters.edge_threshold = value

\* C9: in the configuration create_config returns, every location that
\* mirrors a parameter holds the assignment's value of it; and so do the two
\* locations of edge_threshold in the configurations of the fine sweeps.
C9_MirrorsAgree ==
    cfgPc = "done" =>
        LET config == cfgOut[1]
        IN IF cfgScript = "hyperparameter_optimization"
           THEN /\ EdgeMirrors(config, cfgIn.edge_threshold)
                /\ config.network.temporal_window_ms = cfgIn.temporal_window_ms
                /\ config.neuron.window_size_ms = cfgIn.temporal_window_ms
                /\ config.adapters.retina.temporal_window_ms =
                      cfgIn.temporal_window_ms
                /\ config.adapters.retina.parameters.neuron_window_size =
                      cfgIn.temporal_window_ms
                /\ config.neuron.similarity_threshold =
                      cfgIn.similarity_threshold
                /\ config.adapters.retina.parameters.neuron_threshold =
                      cfgIn.similarity_threshold
                /\ config.neuron.max_patterns = cfgIn.max_patterns
                /\ config.adapters.retina.parameters.neuron_max_patterns =
                      cfgIn.max_patterns
           ELSE EdgeMirrors(config, cfgIn)

\* C9's case: create_config has returned for an assignment none of whose
\* values is the template's.
C9_Witness ==
    /\ cfgPc = "done"
    /\ cfgScript = "hyperparameter_optimization"
    /\ cfgIn.edge_threshold # BASE_CONFIG.network.edge_threshold
    /\ cfgIn.temporal_window_ms # BASE_CONFIG.network.temporal_window_ms
    /\ cfgIn.similarity_threshold # BASE_CONFIG.neuron.similarity_threshold
    /\ cfgIn.max_patterns # BASE_CONFIG.neuron.max_patterns
    /\ cfgOut[1].adapters.retina.parameters.edge_threshold = cfgIn.edge_threshold

(***************************************************************************)
(* main() of hyperparameter_optimization.py: the three phases.             *)
(* The grids of phases 1 and 2 are 4x4 and 4x3 in the script; the first    *)
(* two values of each of phase 1's axes and 2x1 of phase 2's are kept, so  *)
(* that both budgets still cover their grid, as in the script.             *)
(***************************************************************************)
PHASE1_GRID ==
    <<Axis("edge_threshold", <<100, 150>>), Axis("k_neighbors", <<3, 5>>)>>
PHASE1_BUDGET == 16
PHASE2_GRID ==
    <<Axis("similarity_threshold", <<60, 70>>), Axis("max_patterns", <<75>>)>>
PHASE2_BUDGET == 12
VALIDATION_RUN_ID == 9999

\* Lines 274-277 and 283-290: the grid_search call main makes next, if any.
\* Phases 2 and 3 entered whatever the search found.
found_best_always(cfg) == TRUE

\* Lines 283 and 293, if optimizer.best_config: None is false, and the
\* dictionary of the five parameters is true.
found_best(cfg) == cfg # None

MainInputs ==
    IF script # "hyperparameter_optimization" THEN {}
    ELSE IF callLog = <<>> THEN {Input(PHASE1_GRID, PHASE1_BUDGET)}
    ELSE IF Len(callLog) = 1 /\ found_best(best_config)
         THEN {Input(PHASE2_GRID, PHASE2_BUDGET)}
         ELSE {}

\* What the external program does in the runs of main: it reports an
\* accuracy, or it exceeds the timeout.
MainOutcomes ==
    {Completed("float", a, SomeDigits, TRUE) : a \in 0..MaxAcc} \cup {TimedOut}

\* Line 300 alone: the configuration of the search, at the search's scale.
full_config_reduced(best) == create_config(best)

\* Lines 301-302: the two writes of phase 3 into full_config.
full_dataset(config) ==
    [config EXCEPT !.training.examples_per_digit = 5000,
                   !.training.test_images = 10000]

\* Lines 300-302.
full_config_of(best) == full_dataset(create_config(best))

\* Main is past its grid searches.
SearchOver ==
    /\ script = "hyperparameter_optimization"
    /\ pc = "main"
    /\ callLog # <<>>
    /\ MainInputs = {}

\* Lines 293-305 and 134-151: phase 3 builds full_config, writes
\* config_9999.json and starts the child process.
StartValidation ==
    /\ fault = "none"
    /\ SearchOver
    /\ found_best(best_config)
    /\ full_config' = Some(full_config_of(best_config[1]))
    /\ configFiles' = WriteConfig(configFiles, VALIDATION_RUN_ID,
                                  full_config_of(best_config[1]))
    /\ proc' = "running"
    /\ pc' = "validating"
    /\ UNCHANGED <<results, best_accuracy, best_config, param_grid,
                   max_experiments, combinations, loop_i, rng, outputFiles,
                   allResultsFile, summaryFile, fault, status, callLog>>
    /\ UNCHANGED <<script, bestConfigFull>>
    /\ UNCHANGED <<cfgVars, persistFailed, orphan, sweepVars, studyVars>>

\* Lines 151-181 and 305-312: the run of phase 3 ends; nothing is appended.
EndValidation(outcomes) ==
    /\ fault = "none"
    /\ pc = "validating"
    /\ \E o \in outcomes :
         /\ outputFiles' = IF run_experiment(o).wrote
                           THEN outputFiles \cup {VALIDATION_RUN_ID}
                           ELSE outputFiles
         /\ orphan' = (orphan \/ left_running(o))
    /\ proc' = "none"
    /\ pc' = "export"
    /\ UNCHANGED <<results, best_accuracy, best_config, param_grid,
                   max_experiments, combinations, loop_i, rng, configFiles,
                   allResultsFile, summaryFile, fault, status, callLog>>
    /\ UNCHANGED mainVars
    /\ UNCHANGED <<cfgVars, persistFailed, sweepVars, studyVars>>

\* Lines 315-317: best_config_full.json.
SaveBestConfigFull ==
    /\ fault = "none"
    /\ pc = "export"
    /\ bestConfigFull' = full_config
    /\ pc' = "done"
    /\ UNCHANGED <<results, best_accuracy, best_config, param_grid,
                   max_experiments, combinations, loop_i, rng, proc,
                   configFiles, outputFiles, allResultsFile, summaryFile,
                   fault, status, callLog>>
    /\ UNCHANGED <<script, full_config>>
    /\ UNCHANGED <<cfgVars, persistFailed, orphan, sweepVars, studyVars>>

\* Lines 283, 293 with best_config None: phases 2 and 3 are passed over.
MainSkipsValidation ==
    /\ fault = "none"
    /\ SearchOver
    /\ ~found_best(best_config)
    /\ pc' = "done"
    /\ UNCHANGED <<results, best_accuracy, best_config, param_grid,
                   max_experiments, combinations, loop_i, rng, proc,
                   configFiles, outputFiles, allResultsFile, summaryFile,
                   fault, status, callLog>>
    /\ UNCHANGED mainVars
    /\ UNCHANGED <<cfgVars, persistFailed, orphan, sweepVars, studyVars>>

(***************************************************************************)
(* The fine sweeps: main() of optimize_edge_threshold.py,                  *)
(* optimize_edge_fine.py and optimize_k.py.  A sweep is over the first     *)
(* MaxCandidates values of the script's list.                              *)
(***************************************************************************)
MaxCandidates == 3   \* candidates per sweep
MaxSweepAcc == 3     \* accuracies of a sweep's trials are 0..MaxSweepAcc

SweepScripts ==
    {"optimize_edge_threshold", "optimize_edge_fine", "optimize_k"}
EdgeScripts == {"optimize_edge_threshold", "optimize_edge_fine"}

K_VALUES == <<1, 3, 5, 7, 9, 11>>
K_BASE_CONFIG == EDGE_BASE_CONFIG

\* optimize_k.py, run_experiment: the configuration it builds.
k_config(k_value) ==
    [K_BASE_CONFIG EXCEPT !.classification.k_neighbors = k_value]

CandidateList(sc) ==
    CASE sc = "optimize_edge_threshold" -> EDGE_THRESHOLDS
      [] sc = "optimize_edge_fine" -> EDGE_FINE_THRESHOLDS
      [] sc = "optimize_k" -> K_VALUES

\* The loop started at the list's second value.
CandidatesFromSecond(sc) ==
    SubSeq(CandidateList(sc), 2, Min(MaxCandidates + 1, Len(CandidateList(sc))))

\* for threshold in thresholds / for k in k_values.
Candidates(sc) ==
    SubSeq(CandidateList(sc), 1, Min(MaxCandidates, Len(CandidateList(sc))))

sweep_config(sc, candidate) ==
    CASE sc = "optimize_edge_threshold" -> edge_config(candidate)
      [] sc = "optimize_edge_fine" -> edge_fine_config(candidate)
      [] sc = "optimize_k" -> k_config(candidate)

\* The part of a file name that comes from the candidate: f"{threshold:.2f}"
\* (the threshold to the nearest hundredth), f"{threshold:.3f}" (thousandths)
\* and f"{k_value}".
config_key(sc, candidate) ==
    IF sc = "optimize_edge_threshold" THEN (candidate + 5) \div 10
    ELSE candidate

\* What the external program does in a trial of a sweep.
SweepOutcomes ==
    {Completed("float", a, NoDigits, TRUE) : a \in 0..MaxSweepAcc}
    \cup {Completed("float", MaxSweepAcc, NoDigits, FALSE),
          Completed("none", 0, NoDigits, TRUE), TimedOut}

\* run_experiment of a sweep, from its try on: the one except clause takes
\* every Exception, TimeoutExpired included.
sweep_run_experiment(o) ==
    CASE o.kind # "completed" -> [accuracy |-> 0, wrote |-> FALSE]
      [] o.match = "badfloat" -> [accuracy |-> 0, wrote |-> FALSE]
      [] ~o.writable -> [accuracy |-> 0, wrote |-> FALSE]
      [] OTHER -> [accuracy |-> IF o.match = "float" THEN o.value ELSE 0,
                   wrote |-> TRUE]

\* f"{best_threshold:.2f}" raises TypeError on None; f"{best_k}" gives "None".
format_raises(sc, best) == sc \in EdgeScripts /\ best = None

InitSweep ==
    /\ swPc = IF script \in SweepScripts THEN "loop" ELSE "idle"
    /\ swIdx = 0
    /\ swResults = <<>>
    /\ swBest = None
    /\ swBestAcc = 0
    /\ swConfigFiles = {}
    /\ swOutputFiles = {}
    /\ swSummary = None
    /\ swBestFile = None

CurrentCandidate == Candidates(script)[swIdx + 1]

\* The loop takes the next candidate; run_experiment builds its
\* configuration, writes config_<key>.json and starts the child process.
SweepStart ==
    /\ fault = "none"
    /\ swPc = "loop"
    /\ swIdx < Len(Candidates(script))
    /\ swConfigFiles' =
          WriteConfig(swConfigFiles, config_key(script, CurrentCandidate),
                      sweep_config(script, CurrentCandidate))
    /\ proc' = "running"
    /\ swPc' = "running"
    /\ UNCHANGED <<swIdx, swResults, swBest, swBestAcc, swOutputFiles,
                   swSummary, swBestFile>>
    /\ UNCHANGED <<pc, results, best_accuracy, best_config, param_grid,
                   max_experiments, combinations, loop_i, rng, configFiles,
                   outputFiles, allResultsFile, summaryFile, fault, status,
                   callLog>>
    /\ UNCHANGED <<cfgVars, persistFailed, orphan, mainVars, studyVars>>

\* The child process ends, run_experiment returns, the pair is appended and
\* the best updated.
SweepEnd(outcomes) ==
    /\ fault = "none"
    /\ swPc = "running"
    /\ \E o \in outcomes :
         LET ret == sweep_run_experiment(o)
         IN /\ swOutputFiles' =
                  IF ret.wrote
                  THEN swOutputFiles \cup {config_key(script, CurrentCandidate)}
                  ELSE swOutputFiles
            /\ swResults' = Append(swResults, <<CurrentCandidate, ret.accuracy>>)
            /\ IF is_new_best(ret.accuracy, swBestAcc)
               THEN /\ swBestAcc' = ret.accuracy
                    /\ swBest' = Some(CurrentCandidate)
               ELSE UNCHANGED <<swBestAcc, swBest>>
    /\ swIdx' = swIdx + 1
    /\ proc' = "none"
    /\ swPc' = "loop"
    /\ UNCHANGED <<swConfigFiles, swSummary, swBestFile>>
    /\ UNCHANGED <<pc, results, best_accuracy, best_config, param_grid,
                   max_experiments, combinations, loop_i, rng, configFiles,
                   outputFiles, allResultsFile, summaryFile, fault, status,
                   callLog>>
    /\ UNCHANGED <<cfgVars, persistFailed, orphan, mainVars, studyVars>>

\* The loop is over and the results are printed, the best first.
SweepReport ==
    /\ fault = "none"
    /\ swPc = "loop"
    /\ swIdx >= Len(Candidates(script))
    /\ IF format_raises(script, swBest)
       THEN fault' = Uncaught("TypeError") /\ swPc' = swPc
       ELSE fault' = fault /\ swPc' = "summary"
    /\ UNCHANGED <<swIdx, swResults, swBest, swBestAcc, swConfigFiles,
                   swOutputFiles, swSummary, swBestFile>>
    /\ UNCHANGED <<pc, results, best_accuracy, best_config, param_grid,
                   max_experiments, combinations, loop_i, rng, proc,
                   configFiles, outputFiles, allResultsFile, summaryFile,
                   status, callLog>>
    /\ UNCHANGED <<cfgVars, persistFailed, orphan, mainVars, studyVars>>

\* summary.txt: the best and every (candidate, accuracy) pair.
SweepSummary ==
    /\ fault = "none"
    /\ swPc = "summary"
    /\ swSummary' = Some([best |-> swBest, best_accuracy |-> swBestAcc,
                          entries |-> swResults])
    /\ swPc' = IF script \in EdgeScripts THEN "best" ELSE "done"
    /\ UNCHANGED <<swIdx, swResults, swBest, swBestAcc, swConfigFiles,
                   swOutputFiles, swBestFile>>
    /\ UNCHANGED campaignVars
    /\ UNCHANGED <<cfgVars, persistFailed, orphan, mainVars, studyVars>>

\* best_config.json of the two edge sweeps, when there is a best.
SweepBestConfig ==
    /\ fault = "none"
    /\ swPc = "best"
    /\ swBestFile' = IF swBest # None
                     THEN Some(sweep_config(script, swBest[1]))
                     ELSE swBestFile
    /\ swPc' = "done"
    /\ UNCHANGED <<swIdx, swResults, swBest, swBestAcc, swConfigFiles,
                   swOutputFiles, swSummary>>
    /\ UNCHANGED campaignVars
    /\ UNCHANGED <<cfgVars, persistFailed, orphan, mainVars, studyVars>>

(***************************************************************************)
(* The Bayesian studies: main() of optimize_saccades.py and of             *)
(* optimize_saccades_focused.py.  Of the configuration document three      *)
(* leaves are kept: position_encoding.enabled, which the first script      *)
(* clears; architecture.output.neurons_per_class, which the first script   *)
(* suggests and the focused one fixes; architecture.gabor.threshold (in    *)
(* hundredths), which both suggest.  A study makes MaxStudyTrials trials    *)
(* (NUM_TRIALS is 50 and 30).  The objective never calls trial.report, so   *)
(* the pruner has nothing to prune.                                        *)
(***************************************************************************)
MaxStudyTrials == 2

StudyScripts == {"optimize_saccades", "optimize_saccades_focused"}

\* BASE_CONFIG, TEMP_CONFIG and best_config_path of each script.
BaseName(sc) == IF sc = "optimize_saccades" THEN "position" ELSE "best"
TempName(sc) == IF sc = "optimize_saccades" THEN "opt" ELSE "opt2"
BestName(sc) == IF sc = "optimize_saccades" THEN "best" ELSE "best_v2"

\* BASELINE_ACCURACY of the focused script (71.91), on the model's scale.
FOCUSED_BASELINE == 1

\* configs/emnist_letters_saccades_position.json as the first script finds it.
POSITION_CONFIG ==
    [position_enabled |-> TRUE, neurons_per_class |-> 25,
     gabor_threshold |-> 10]

\* What trial.suggest_* may return: two values of each range.
SaccadeParams == [neurons_per_class : {15, 20}, gabor_threshold : {5, 10}]
FocusedParams == [gabor_threshold : {15, 16}]
StudyParams(sc) ==
    IF sc = "optimize_saccades" THEN SaccadeParams ELSE FocusedParams

\* objective(), lines 62-102: the configuration of a trial.
saccades_trial_config(base, p) ==
    [base EXCEPT !.position_enabled = FALSE,
                 !.neurons_per_class = p.neurons_per_class,
                 !.gabor_threshold = p.gabor_threshold]

\* optimize_saccades_focused.py, objective().
focused_trial_config(base, p) ==
    [base EXCEPT !.neurons_per_class = 15,
                 !.gabor_threshold = p.gabor_threshold]

trial_config(sc, base, p) ==
    IF sc = "optimize_saccades" THEN saccades_trial_config(base, p)
    ELSE focused_trial_config(base, p)

\* main(), lines 175-190: the configuration exported for the best parameters.
saccades_best_config(base, p) ==
    [base EXCEPT !.position_enabled = FALSE,
                 !.neurons_per_class = p.neurons_per_class,
                 !.gabor_threshold = p.gabor_threshold]

\* optimize_saccades_focused.py, main(): only the suggested parameters are
\* applied to the base.
focused_best_config(base, p) ==
    [base EXCEPT !.gabor_threshold = p.gabor_threshold]

best_config_of(sc, base, p) ==
    IF sc = "optimize_saccades" THEN saccades_best_config(base, p)
    ELSE focused_best_config(base, p)

\* What the external program does in a trial of a study.
StudyOutcomes ==
    {Completed("float", a, NoDigits, TRUE) : a \in 0..MaxAcc}
    \cup {Completed("none", 0, NoDigits, TRUE), TimedOut, OsError}

\* run_experiment(config_path) of the two scripts: the accuracy, or 0.0.
study_run_experiment(o) ==
    CASE o.kind # "completed" -> 0
      [] o.match = "float" -> o.value
      [] OTHER -> 0

\* study.best_trial: the first trial with the greatest value (a pruned
\* trial carries the value 0 here).
BestTrial(ts) ==
    ts[CHOOSE a \in 1..Len(ts) :
          /\ \A b \in 1..Len(ts) : ts[b].value <= ts[a].value
          /\ \A b \in 1..(a - 1) : ts[b].value < ts[a].value]

\* The focused script with the test written >=.
study_improved_ge(best_value, baseline) == best_value >= baseline

\* optimize_saccades_focused.py: study.best_value > BASELINE_ACCURACY.
study_improved(best_value, baseline) == best_value > baseline

\* n_startup_trials of the MedianPruner (5, and 3 in the focused script), on
\* the model's scale: the pruner prunes nothing before that many trials.
N_STARTUP_TRIALS == 1

\* objective() with a call of trial.should_prune() in it.
asks_pruner_always(sc) == TRUE

\* objective(): whether the trial asks the pruner. It does not: there is no
\* trial.report() and no trial.should_prune() between the suggestions and
\* the return of the accuracy.
asks_pruner(sc) == FALSE

\* What the pruner may answer to trial number n, were it asked.
PrunerAnswers(n) == IF n >= N_STARTUP_TRIALS THEN BOOLEAN ELSE {FALSE}

\* The state a trial ends in: pruned when the objective asked the pruner and
\* the pruner said yes, complete when the objective returned.
trial_state(sc, answer) ==
    IF asks_pruner(sc) /\ answer THEN "PRUNED" ELSE "COMPLETE"

\* The files of configs/ when the script starts: its BASE_CONFIG is there;
\* for the focused script that is a file the first script exported.
InitStudy ==
    /\ stPc = IF script \in StudyScripts THEN "loop" ELSE "idle"
    /\ trials = <<>>
    /\ stParams = None
    /\ studyFile = None
    /\ \E base \in
            CASE script = "optimize_saccades" -> {POSITION_CONFIG}
              [] script = "optimize_saccades_focused" ->
                    {saccades_best_config(POSITION_CONFIG, p) :
                        p \in SaccadeParams}
              [] OTHER -> {None} :
          configsDir = [name \in ConfigNames |->
                           IF script \in StudyScripts /\ name = BaseName(script)
                           THEN Some(base) ELSE None]

\* study.optimize calls objective(trial): the parameters are suggested, the
\* base file read, the configuration written to TEMP_CONFIG and the child
\* process started.
StudyAsk ==
    /\ fault = "none"
    /\ stPc = "loop"
    /\ Len(trials) < MaxStudyTrials
    /\ \E p \in StudyParams(script) :
         /\ stParams' = Some(p)
         /\ configsDir' =
               [configsDir EXCEPT ![TempName(script)] =
                   Some(trial_config(script, configsDir[BaseName(script)][1], p))]
    /\ proc' = "running"
    /\ stPc' = "running"
    /\ UNCHANGED <<trials, studyFile>>
    /\ UNCHANGED <<pc, results, best_accuracy, best_config, param_grid,
                   max_experiments, combinations, loop_i, rng, configFiles,
                   outputFiles, allResultsFile, summaryFile, fault, status,
                   callLog>>
    /\ UNCHANGED <<cfgVars, persistFailed, orphan, mainVars, sweepVars>>

\* The child process ends, objective returns the accuracy and the study
\* keeps the trial.
StudyTell(outcomes) ==
    /\ fault = "none"
    /\ stPc = "running"
    /\ \E o \in outcomes, answer \in PrunerAnswers(Len(trials)) :
         trials' = Append(trials,
                      [number |-> Len(trials),
                       params |-> stParams[1],
                       state |-> trial_state(script, answer),
                       value |-> IF trial_state(script, answer) = "PRUNED"
                                 THEN 0 ELSE study_run_experiment(o)])
    /\ stParams' = None
    /\ proc' = "none"
    /\ stPc' = "loop"
    /\ UNCHANGED <<configsDir, studyFile>>
    /\ UNCHANGED <<pc, results, best_accuracy, best_config, param_grid,
                   max_experiments, combinations, loop_i, rng, configFiles,
                   outputFiles, allResultsFile, summaryFile, fault, status,
                   callLog>>
    /\ UNCHANGED <<cfgVars, persistFailed, orphan, mainVars, sweepVars>>

\* study.optimize has returned: the best configuration is exported (by the
\* focused script only when it improves on the baseline).
StudyExport ==
    /\ fault = "none"
    /\ stPc = "loop"
    /\ Len(trials) >= MaxStudyTrials
    /\ configsDir' =
          IF script = "optimize_saccades_focused"
             /\ ~study_improved(BestTrial(trials).value, FOCUSED_BASELINE)
          THEN configsDir
          ELSE [configsDir EXCEPT ![BestName(script)] =
                   Some(best_config_of(script, configsDir[BaseName(script)][1],
                                       BestTrial(trials).params))]
    /\ stPc' = "pickle"
    /\ UNCHANGED <<trials, stParams, studyFile>>
    /\ UNCHANGED campaignVars
    /\ UNCHANGED <<cfgVars, persistFailed, orphan, mainVars, sweepVars>>

\* pickle.dump(study): the study reaches the disk.
StudyPickle ==
    /\ fault = "none"
    /\ stPc = "pickle"
    /\ studyFile' = Some(trials)
    /\ stPc' = "done"
    /\ UNCHANGED <<trials, stParams, configsDir>>
    /\ UNCHANGED campaignVars
    /\ UNCHANGED <<cfgVars, persistFailed, orphan, mainVars, sweepVars>>

(***************************************************************************)
(* SpecScripts: one run of main() of one of the six scripts, the files     *)
(* writable.                                                               *)
(***************************************************************************)
Scripts == {"hyperparameter_optimization"} \cup SweepScripts \cup StudyScripts

InitScripts ==
    /\ script \in Scripts
    /\ InitCampaign
    /\ InitCfgIdle
    /\ InitMainVars
    /\ InitSweep
    /\ InitStudy

NextScripts ==
    \/ CallGridSearch(MainInputs, PHASE1_BUDGET + PHASE2_BUDGET)
    \/ StartTrial
    \/ EndTrial(MainOutcomes)
    \/ SaveOpen
    \/ SaveDump
    \/ SaveSummary
    \/ GridSearchReturn
    \/ StartValidation
    \/ EndValidation(MainOutcomes)
    \/ SaveBestConfigFull
    \/ MainSkipsValidation
    \/ SweepStart
    \/ SweepEnd(SweepOutcomes)
    \/ SweepReport
    \/ SweepSummary
    \/ SweepBestConfig
    \/ StudyAsk
    \/ StudyTell(StudyOutcomes)
    \/ StudyExport
    \/ StudyPickle

SpecScripts == InitScripts /\ [][NextScripts]_vars

(***************************************************************************)
(* Claims about main() of hyperparameter_optimization.py (SpecScripts).    *)
(***************************************************************************)
IsMain == script = "hyperparameter_optimization"

\* C11 as stated: every configuration written in phase 2 has, for
\* edge_threshold, k_neighbors and temporal_window_ms, which phase 2 does not
\* sweep, the value of phase 1's best_config.
C11_Phase2KeepsPhase1Best ==
    (IsMain /\ Len(callLog) = 2) =>
        LET best1 == callLog[2].carried.config[1]
        IN \A f \in configFiles :
             (f.run_id >= callLog[2].first /\ f.run_id # VALIDATION_RUN_ID) =>
                /\ f.config.network.edge_threshold = best1.edge_threshold
                /\ f.config.classification.k_neighbors = best1.k_neighbors
                /\ f.config.network.temporal_window_ms =
                      best1.temporal_window_ms

\* The records of the c-th grid_search call.
RecordsOf(c) ==
    (callLog[c].first + 1)..
        (IF c < Len(callLog) THEN callLog[c + 1].first ELSE Len(results))

\* No trial of the c-th call was above the best carried into it.
NoImprovement(c) ==
    \A j \in RecordsOf(c) : results[j].accuracy <= callLog[c].carried.accuracy

\* The best when the c-th call was over.
BestAfter(c) ==
    IF c < Len(callLog) THEN callLog[c + 1].carried
    ELSE [accuracy |-> best_accuracy, config |-> best_config]

\* The focused study has ended with a best value above the baseline.
FocusedImproved ==
    /\ Len(trials) >= MaxStudyTrials
    /\ BestTrial(trials).value > FOCUSED_BASELINE

C12_GridCarries ==
    IsMain =>
        /\ fault = "none"
        /\ \A c \in 1..Len(callLog) :
             (callLog[c].returned /\ NoImprovement(c)) =>
                 BestAfter(c) = callLog[c].carried

C12_FocusedKeeps ==
    (script = "optimize_saccades_focused" /\ ~FocusedImproved') =>
        \A name \in ConfigNames \ {TempName(script)} :
            configsDir'[name] = configsDir[name]

\* C12: a phase of the grid campaign in which no trial has an accuracy above
\* the best carried into it returns with best_accuracy and best_config as
\* they were, and the campaign goes on; and a focused study whose best value
\* is not above the baseline changes no file of configs/ but its TEMP_CONFIG.
C12_NoImprovementCarries ==
    /\ [](C12_GridCarries /\ (script = "optimize_saccades_focused" => fault = "none"))
    /\ [][C12_FocusedKeeps]_vars

\* C12's case: phase 2 had a trial as good as phase 1's best and none
\* better, phase 3 ran with phase 1's best and main is over.
C12_Witness ==
    /\ IsMain
    /\ pc = "done"
    /\ Len(callLog) = 2
    /\ NoImprovement(2)
    /\ \E j \in RecordsOf(2) : results[j].accuracy = callLog[2].carried.accuracy
    /\ best_config = callLog[2].carried.config
    /\ bestConfigFull # None

\* C13: the configuration phase 3 writes and runs is create_config of the
\* params of the record with the greatest accuracy (the earliest such), but
\* for training.examples_per_digit = 5000 and training.test_images = 10000,
\* and best_config_full.json holds that configuration.
C13_ValidationRunsBest ==
    (IsMain /\ full_config # None) =>
        /\ \E m \in 1..Len(results) :
              /\ IsEarliestMax(m)
              /\ full_config[1] =
                    [create_config(results[m].params) EXCEPT
                        !.training = [examples_per_digit |-> 5000,
                                      test_images |-> 10000]]
        /\ [run_id |-> VALIDATION_RUN_ID, config |-> full_config[1]]
              \in configFiles
        /\ pc = "done" => bestConfigFull = full_config
        /\ pc # "done" => bestConfigFull = None

\* C13's case: main is over, the best record is one of phase 2 and
\* best_config_full.json holds its configuration at full scale.
C13_Witness ==
    /\ IsMain
    /\ pc = "done"
    /\ Len(callLog) = 2
    /\ \E m \in RecordsOf(2) :
          /\ IsEarliestMax(m)
          /\ bestConfigFull[1].neuron.similarity_threshold =
                results[m].params.similarity_threshold
          /\ results[m].params.similarity_threshold # 70
    /\ bestConfigFull[1].training.examples_per_digit = 5000

(***************************************************************************)
(* Claims about the records and the writes of grid_search (Spec).          *)
(***************************************************************************)
\* C14: whatever grid_search calls have been made on the optimizer, the j-th
\* record (from 0) has run_id j, and the records of a call are those of the
\* combinations it took, in the order it took them.
C14_RunIdsGapless ==
    /\ \A j \in 1..Len(results) : results[j].run_id = j - 1
    /\ \A c \in 1..Len(callLog) :
          \A j \in 1..Len(callLog[c].visited) :
              callLog[c].first + j <= Len(results) =>
                  results[callLog[c].first + j].params =
                      full_params_of(param_names_of(callLog[c].grid),
                                     callLog[c].visited[j])

\* C14's case: the third record is the first of a second grid_search call.
C14_Witness ==
    /\ Len(callLog) = 2
    /\ callLog[2].first = 2
    /\ Len(results) = 3
    /\ results[3].run_id = 2
    /\ results[3].params # results[2].params

\* C20: once a write of config_NNNN.json or of all_results.json has raised,
\* the process is dead of that exception; no child process exists; when it
\* was the configuration, its trial was not evaluated and has no record and
\* no configuration file; when it was the history, the file is as the save
\* before left it.
C20_PersistenceFailureIsFatal ==
    persistFailed =>
        /\ fault = "PersistenceError"
        /\ proc = "none"
        /\ pc \in {"loop", "save"}
        /\ pc = "loop" =>
              /\ CurrentCall.first + Len(CurrentCall.visited) = Len(results)
              /\ Len(CurrentCall.visited) = loop_i
              /\ \A f \in configFiles : f.run_id # Len(results)
        /\ pc = "save" =>
              FileHolds(SubSeq(results, 1, Len(results) - 1),
                        allResultsFile.best_accuracy,
                        allResultsFile.best_config)

\* C20's case: the configuration of the second trial of a call could not be
\* written; the first trial's record is there and saved.
C20_Witness ==
    /\ persistFailed
    /\ pc = "loop"
    /\ loop_i = 1
    /\ Len(results) >= 1
    /\ allResultsFile.results = results
    /\ combinations # <<>>
    /\ loop_i < Len(combinations)

(***************************************************************************)
(* Claims about the trials of every script (SpecScripts).                  *)
(***************************************************************************)
HasConfig(files, run_id, config) ==
    [run_id |-> run_id, config |-> config] \in files

\* The configuration of the study's trial with parameters p.
StudyConfig(p) ==
    trial_config(script, configsDir[BaseName(script)][1], p)

\* C15: while the child process of a trial exists, and for as long as the
\* path is not written again, the trial's configuration is in the file the
\* child was given; so the configuration file of every recorded trial of a
\* grid search or sweep exists, the failed ones included, and so does that of
\* a study's last trial.
C15_ConfigWrittenBeforeRun ==
    /\ pc = "running" =>
          HasConfig(configFiles, Len(results), create_config(CurrentParams))
    /\ pc = "validating" =>
          HasConfig(configFiles, VALIDATION_RUN_ID, full_config[1])
    /\ \A j \in 1..Len(results) :
          HasConfig(configFiles, results[j].run_id,
                    create_config(results[j].params))
    /\ swPc = "running" =>
          HasConfig(swConfigFiles, config_key(script, CurrentCandidate),
                    sweep_config(script, CurrentCandidate))
    /\ \A j \in 1..Len(swResults) :
          HasConfig(swConfigFiles, config_key(script, swResults[j][1]),
                    sweep_config(script, swResults[j][1]))
    /\ stPc = "running" =>
          configsDir[TempName(script)] = Some(StudyConfig(stParams[1]))
    /\ (stPc # "running" /\ trials # <<>>) =>
          configsDir[TempName(script)] =
              Some(StudyConfig(trials[Len(trials)].params))

\* C15's case: a trial of the grid campaign timed out, a later one ran, and
\* the configuration of the one that timed out is on disk while its output
\* is not.
C15_Witness ==
    /\ IsMain
    /\ \E j \in 1..Len(results) :
          /\ status[j] = "timeout"
          /\ j < Len(results)
          /\ results[j].run_id \notin outputFiles
          /\ HasConfig(configFiles, results[j].run_id,
                       create_config(results[j].params))

\* C16 as stated: the configuration of every trial made so far is on disk,
\* in a file of its own, in every strategy.
C16_ConfigPerTrial ==
    /\ \A j \in 1..Len(results) :
          HasConfig(configFiles, results[j].run_id,
                    create_config(results[j].params))
    /\ \A j \in 1..Len(swResults) :
          HasConfig(swConfigFiles, config_key(script, swResults[j][1]),
                    sweep_config(script, swResults[j][1]))
    /\ \A t \in 1..Len(trials) :
          \E name \in ConfigNames :
              configsDir[name] = Some(StudyConfig(trials[t].params))

\* C17 as stated: while trial i+1 of a fine sweep or of a study is being
\* evaluated, the records of trials 1..i are on disk.
C17_HistorySavedEachTrial ==
    /\ (swPc = "running" /\ swResults # <<>>) =>
          /\ swSummary # None
          /\ swSummary[1].entries = swResults
    /\ (stPc = "running" /\ trials # <<>>) => studyFile = Some(trials)

\* Entry m of the sweep's results has the greatest accuracy and is the
\* earliest that has.
SweepEarliestMax(m) ==
    /\ \A b \in 1..Len(swResults) : swResults[b][2] <= swResults[m][2]
    /\ \A b \in 1..(m - 1) : swResults[b][2] < swResults[m][2]

\* The loop of the sweep is over.
SweepLoopOver ==
    script \in SweepScripts /\ swPc # "running"
    /\ swIdx >= Len(Candidates(script))

SweepInListOrder ==
    /\ Len(swResults) = swIdx
    /\ \A j \in 1..Len(swResults) : swResults[j][1] = CandidateList(script)[j]
    /\ swSummary # None =>
          /\ SweepLoopOver
          /\ swSummary[1] = [best |-> swBest, best_accuracy |-> swBestAcc,
                             entries |-> swResults]

\* C18 (as amended): a sweep evaluates the candidates of its list once each
\* in list order and records one (candidate, accuracy) pair per candidate in
\* that order; its best is the earliest candidate of greatest accuracy when
\* that accuracy is above 0.0, and None with best_accuracy 0.0 when every
\* accuracy is 0.0; the summary holds the pairs and that best.
C18_SweepInOrderBestEarliestMax ==
    script \in SweepScripts =>
        /\ SweepInListOrder
        /\ swResults # <<>> =>
              \E m \in 1..Len(swResults) :
                  /\ SweepEarliestMax(m)
                  /\ IF swResults[m][2] > 0
                     THEN swBest = Some(swResults[m][1])
                          /\ swBestAcc = swResults[m][2]
                     ELSE swBest = None /\ swBestAcc = 0

\* C18 as stated: the best reported is the earliest candidate of greatest
\* accuracy, whatever the accuracies.
C18_Original ==
    script \in SweepScripts =>
        /\ SweepInListOrder
        /\ swResults # <<>> =>
              \E m \in 1..Len(swResults) :
                  /\ SweepEarliestMax(m)
                  /\ swBest = Some(swResults[m][1])
                  /\ swBestAcc = swResults[m][2]

\* C18's case: the sweep over 0.10, 0.12, 0.13 is over with accuracies that
\* rise and fall as in the example (lowest, highest, between); the summary
\* has the three pairs in list order and the second candidate as the best.
C18_Witness ==
    /\ script = "optimize_edge_threshold"
    /\ swPc = "done"
    /\ Len(swResults) = 3
    /\ swResults[1][2] < swResults[3][2]
    /\ swResults[3][2] < swResults[2][2]
    /\ swResults[1][2] > 0
    /\ swSummary[1].best = Some(CandidateList(script)[2])
    /\ swSummary[1].best_accuracy = swResults[2][2]
    /\ swSummary[1].entries = swResults

\* C19 as stated: a sweep all of whose trials returned 0.0 does not raise.
C19_AllFailSweepCompletes ==
    (script \in SweepScripts /\ \A j \in 1..Len(swResults) : swResults[j][2] = 0)
        => fault = "none"

(***************************************************************************)
(* C21: pruning never ends a trial early.  Every trial the study keeps is  *)
(* COMPLETE and carries the accuracy its objective returned, and the study *)
(* is over only when MaxStudyTrials (NUM_TRIALS) trials have been kept.    *)
(***************************************************************************)
C21_NoTrialPruned ==
    script \in StudyScripts =>
       /\ \A i \in 1..Len(trials) :
             /\ trials[i].state = "COMPLETE"
             /\ trials[i].number = i - 1
             /\ trials[i].value \in 0..MaxAcc
       /\ stPc \in {"pickle", "done"} => Len(trials) = MaxStudyTrials
       /\ studyFile # None => Len(studyFile[1]) = MaxStudyTrials

\* A study is over in which a trial past the pruner's startup did worse than
\* the trial before it, and is complete all the same.
C21_Witness ==
    /\ script \in StudyScripts
    /\ stPc = "done"
    /\ Len(trials) > N_STARTUP_TRIALS
    /\ \E i \in (N_STARTUP_TRIALS + 1)..Len(trials) :
          /\ trials[i].value < trials[i - 1].value
          /\ trials[i].state = "COMPLETE"

(***************************************************************************)
(* C22: the configuration a study exports is the configuration its best    *)
(* trial evaluated: once the export is over, the file at the best path, if *)
(* the script wrote one, equals leaf for leaf the document the best trial  *)
(* wrote to TEMP_CONFIG.                                                   *)
(***************************************************************************)
C22_ExportIsBestTrialConfig ==
    (/\ script \in StudyScripts
     /\ stPc \in {"pickle", "done"}
     /\ configsDir[BestName(script)] # None)
    => configsDir[BestName(script)][1] = StudyConfig(BestTrial(trials).params)

\* The number of times the campaign has started the external program: once
\* for every combination a grid_search visited, and once for validation.
RECURSIVE VisitedUpTo(_)
VisitedUpTo(c) ==
    IF c = 0 THEN 0 ELSE Len(callLog[c].visited) + VisitedUpTo(c - 1)

Invocations ==
    VisitedUpTo(Len(callLog)) + (IF full_config # None THEN 1 ELSE 0)

(***************************************************************************)
(* C23: every run of the external program, the validation run included,    *)
(* leaves exactly one record: whenever no run is under way the ledger has  *)
(* as many records as the program was started.                             *)
(***************************************************************************)
C23_OneRecordPerInvocation ==
    (IsMain /\ proc = "none") => Len(results) = Invocations

(***************************************************************************)
(* SpecProc: the processes of a grid search.  A trial ends with an         *)
(* accuracy or at the timeout; at the timeout the program the killed bash  *)
(* had started may be left running, and ends later on its own.             *)
(***************************************************************************)
ProcInputs ==
    {Input(<<Axis("edge_threshold", <<100, 150, 200>>)>>, 3),
     Input(<<Axis("k_neighbors", <<3, 5>>)>>, 2)}

ProcOutcomes ==
    {Completed("float", 1, SomeDigits, TRUE), TimedOut, TimedOutSurvives}

\* The program of an earlier trial, left running at the timeout, ends.
OrphanEnds ==
    /\ orphan
    /\ orphan' = FALSE
    /\ UNCHANGED <<campaignVars, cfgVars, persistFailed, mainVars, sweepVars,
                   studyVars>>

NextProc ==
    \/ CallGridSearch(ProcInputs, MaxTrials)
    \/ StartTrial
    \/ EndTrial(ProcOutcomes)
    \/ SaveOpen
    \/ SaveDump
    \/ SaveSummary
    \/ GridSearchReturn
    \/ OrphanEnds

SpecProc == Init /\ [][NextProc]_vars

(***************************************************************************)
(* C24: trials are strictly sequential.  While the child process of a      *)
(* trial exists no program of an earlier trial is running, and the records *)
(* of all earlier trials are appended and in all_results.json.             *)
(***************************************************************************)
C24_OneProcessAtATime ==
    /\ ~(proc = "running" /\ orphan)
    /\ pc = "running" => FileHolds(results, best_accuracy, best_config)

(***************************************************************************)
(* SpecLive: a grid search whose process is not killed and whose files can *)
(* be written.  The interpreter keeps executing the one thread there is    *)
(* and every external call returns or is cut off by the timeout, so a step *)
(* that can be taken is taken: weak fairness of the next-state relation.   *)
(***************************************************************************)
\* A sampled grid and a grid evaluated in full.
LiveInputs ==
    {Input(<<Axis("edge_threshold", <<100, 200>>),
             Axis("k_neighbors", <<3, 7>>)>>, 3),
     Input(<<Axis("edge_threshold", <<100, 150, 200, 250>>)>>, 9)}

\* One outcome of each status: ok, timeout, error (twice), parse-failure
\* (twice).
LiveOutcomes ==
    {Completed("float", 1, SomeDigits, TRUE), TimedOut, OsError,
     Completed("float", 1, SomeDigits, FALSE),
     Completed("none", 0, NoDigits, TRUE),
     Completed("badfloat", 0, NoDigits, TRUE)}

NextLive ==
    \/ CallGridSearch(LiveInputs, MaxTrials + 1)
    \/ StartTrial
    \/ EndTrial(LiveOutcomes)
    \/ SaveOpen
    \/ SaveDump
    \/ SaveSummary
    \/ GridSearchReturn

SpecLive == Init /\ [][NextLive]_vars /\ WF_vars(NextLive)

\* grid_search has returned, and the call appended min(product, budget)
\* records.
GridSearchTerminal ==
    /\ pc = "main"
    /\ fault = "none"
    /\ callLog # <<>>
    /\ CurrentCall.returned
    /\ Len(results) - CurrentCall.first =
          Min(SizeFrom(CurrentCall.grid, 1), CurrentCall.budget)

(***************************************************************************)
(* C25: a grid search that has been called eventually returns, having      *)
(* appended exactly min(product size, max_experiments) records, whatever   *)
(* the outcomes of its trials are.                                         *)
(***************************************************************************)
C25_GridSearchTerminates == (pc # "main") ~> GridSearchTerminal

\* A grid search has returned whose four trials were an ok, a timeout, an
\* error and a parse failure.
C25_Witness ==
    /\ GridSearchTerminal
    /\ Len(results) = 4
    /\ {status[a] : a \in 1..4} = {"ok", "timeout", "error", "parse-failure"}

(***************************************************************************)
(* SpecAlias: the dictionaries of hyperparameter_optimization.py in        *)
(* memory.  create_config is called any number of times, a configuration   *)
(* it returned is handed to run_experiment, which dumps it, or is edited   *)
(* as phase 3 edits full_config.                                           *)
(***************************************************************************)
\* config = BASE_CONFIG: the dictionary the writes go to is the template.
copy_target_alias(src, fresh) == src

\* Line 114, json.loads(json.dumps(BASE_CONFIG)): the dictionary the writes
\* go to is a new one, at an address nothing else holds.
copy_target(src, fresh) == fresh

\* The assignments create_config is called with.
AliasAssignments ==
    {full_params_of(<<"edge_threshold", "k_neighbors">>, <<e, 3>>) :
        e \in {100, 200}}

\* Lines 112-132: create_config(params) copies the template, writes the
\* parameters into the copy and returns it.
AliasCreateConfig ==
    /\ fault = "none"
    /\ Len(handles) < MaxObjects
    /\ \E params \in AliasAssignments :
         LET config == copy_target(TEMPLATE, Len(handles) + 1)
         IN /\ heap' = [heap EXCEPT ![config] =
                           Some(update_parameters(heap[TEMPLATE][1], params))]
            /\ handles' = Append(handles, [ref |-> config, params |-> params,
                                           edited |-> FALSE])
    /\ UNCHANGED <<cfgPc, cfgScript, cfgIn, cfgOut>>
    /\ UNCHANGED <<campaignVars, persistFailed, orphan, mainVars, sweepVars,
                   studyVars>>

\* Lines 301-302: a configuration create_config returned is edited in place.
AliasEdit ==
    /\ fault = "none"
    /\ \E i \in 1..Len(handles) :
         /\ ~handles[i].edited
         /\ heap' = [heap EXCEPT ![handles[i].ref] = Some(full_dataset(@[1]))]
         /\ handles' = [handles EXCEPT ![i].edited = TRUE]
    /\ UNCHANGED <<cfgPc, cfgScript, cfgIn, cfgOut>>
    /\ UNCHANGED <<campaignVars, persistFailed, orphan, mainVars, sweepVars,
                   studyVars>>

\* Lines 137-139: run_experiment(config, run_id) dumps the configuration it
\* is given; it writes nothing into it.
AliasDump ==
    /\ fault = "none"
    /\ \E i \in 1..Len(handles) :
         /\ cfgOut # heap[handles[i].ref]
         /\ cfgOut' = heap[handles[i].ref]
    /\ UNCHANGED <<cfgPc, cfgScript, cfgIn, heap, handles>>
    /\ UNCHANGED <<campaignVars, persistFailed, orphan, mainVars, sweepVars,
                   studyVars>>

NextAlias == AliasCreateConfig \/ AliasEdit \/ AliasDump

SpecAlias == Init /\ [][NextAlias]_vars

\* What the i-th configuration returned must hold: what create_config
\* builds from its assignment, with the edits made to that configuration.
ExpectedOf(h) ==
    IF h.edited THEN full_dataset(create_config(h.params))
    ELSE create_config(h.params)

(***************************************************************************)
(* C26: create_config has no side effect.  After any sequence of calls,    *)
(* dumps and phase-3 edits the template BASE_CONFIG is what it was, every  *)
(* configuration returned is a dictionary of its own, and it holds what    *)
(* create_config built from its assignment plus the edits made to it and   *)
(* to no other.                                                            *)
(***************************************************************************)
C26_CreateConfigIsPure ==
    /\ heap[TEMPLATE] = Some(BASE_CONFIG)
    /\ \A i \in 1..Len(handles) :
         /\ handles[i].ref # TEMPLATE
         /\ heap[handles[i].ref] = Some(ExpectedOf(handles[i]))
         /\ \A j \in 1..Len(handles) :
              i # j => handles[i].ref # handles[j].ref

\* Two configurations of different assignments exist, the first edited for
\* phase 3 and dumped, the second as create_config returned it.
C26_Witness ==
    /\ Len(handles) >= 2
    /\ handles[1].edited
    /\ ~handles[2].edited
    /\ handles[1].params # handles[2].params
    /\ cfgOut = Some(full_dataset(create_config(handles[1].params)))
    /\ heap[handles[2].ref] = Some(create_config(handles[2].params))

\* rs is a prefix of rt.
IsPrefix(rs, rt) == Len(rs) <= Len(rt) /\ SubSeq(rt, 1, Len(rs)) = rs

(***************************************************************************)
(* C27: the ledger is append-only.  No step removes, reorders or changes a *)
(* record; a step changes the ledger only by adding one record at its end, *)
(* and that step is the end of a trial.                                    *)
(***************************************************************************)
C27_LedgerAppendOnly ==
    [][/\ IsPrefix(results, results')
       /\ Len(results') <= Len(results) + 1
       /\ Len(results') = Len(results) + 1 =>
             (pc = "running" /\ proc' = "none" /\ pc' # "running")]_vars

\* A third record has been appended whose accuracy is above that of the
\* two before it, which are still in the ledger, failures among them.
C27_Witness ==
    /\ Len(results) = 3
    /\ results[3].accuracy > results[1].accuracy
    /\ results[3].accuracy > results[2].accuracy
    /\ status[1] \in Failures
    /\ results[1].run_id = 0 /\ results[2].run_id = 1

(***************************************************************************)
(* C29: a trial of accuracy 0.0 never becomes the best.  best_config is    *)
(* None exactly when no record has an accuracy above 0; otherwise it is    *)
(* the params of a record whose accuracy is best_accuracy, which is above  *)
(* 0.                                                                      *)
(***************************************************************************)
C29_SentinelNeverBest ==
    /\ best_config = None <=>
          ~(\E a \in 1..Len(results) : results[a].accuracy > 0)
    /\ best_config = None => best_accuracy = 0
    /\ best_config # None =>
          /\ best_accuracy > 0
          /\ \E a \in 1..Len(results) :
                /\ results[a].params = best_config[1]
                /\ results[a].accuracy = best_accuracy

\* Failed trials came first and left no best; a later trial of another
\* assignment measured an accuracy and is the best.
C29_Witness ==
    /\ Len(results) = 3
    /\ results[1].accuracy = 0 /\ results[2].accuracy = 0
    /\ status[1] \in Failures
    /\ status[2] = "ok"
    /\ results[3].accuracy > 0
    /\ results[3].params # results[1].params
    /\ best_config = Some(results[3].params)

(***************************************************************************)
(* SpecEval: run_experiment as a function of what the external program     *)
(* does: how it ends, what it prints, whether its output can be saved and  *)
(* the exit code it leaves.                                                *)
(***************************************************************************)
\* Exit codes of the child: success, failure, and killed by a signal.
ExitCodes == {0, 1, 2, 139}

EvalInputs == [outcome : Outcomes, returncode : ExitCodes]

InitEval ==
    /\ InitCampaign
    /\ InitMainVars
    /\ InitSweepIdle
    /\ InitStudyIdle
    /\ InitHeap
    /\ script = "hyperparameter_optimization"
    /\ cfgPc = "start"
    /\ cfgOut = None
    /\ cfgScript \in {"hyperparameter_optimization", "optimize_k"}
    /\ cfgIn \in EvalInputs

\* hyperparameter_optimization.py, run_experiment, lines 150-181: the exit
\* code is never read (no check=True, no result.returncode).
EvalRunExperiment ==
    /\ cfgPc = "start"
    /\ cfgScript = "hyperparameter_optimization"
    /\ cfgOut' = Some([accuracy |-> run_experiment(cfgIn.outcome).accuracy])
    /\ cfgPc' = "done"
    /\ UNCHANGED <<cfgScript, cfgIn, heap, handles>>
    /\ UNCHANGED <<campaignVars, persistFailed, orphan, mainVars, sweepVars,
                   studyVars>>

\* optimize_k.py, run_experiment, lines 96-116.
EvalSweepRunExperiment ==
    /\ cfgPc = "start"
    /\ cfgScript = "optimize_k"
    /\ cfgOut' = Some([accuracy |->
                          sweep_run_experiment(cfgIn.outcome).accuracy])
    /\ cfgPc' = "done"
    /\ UNCHANGED <<cfgScript, cfgIn, heap, handles>>
    /\ UNCHANGED <<campaignVars, persistFailed, orphan, mainVars, sweepVars,
                   studyVars>>

NextEval == EvalRunExperiment \/ EvalSweepRunExperiment

SpecEval == InitEval /\ [][NextEval]_vars

(***************************************************************************)
(* C28: when the program ends within the timeout and its output has a      *)
(* well-formed Overall Accuracy marker, run_experiment returns the value   *)
(* of that marker, whatever the exit code and whether or not the output    *)
(* file could be written.                                                  *)
(***************************************************************************)
C28_MarkerValueReturned ==
    (/\ cfgPc = "done"
     /\ cfgScript \in {"hyperparameter_optimization", "optimize_k"}
     /\ cfgIn.outcome.kind = "completed"
     /\ cfgIn.outcome.match = "float")
    => cfgOut[1].accuracy = cfgIn.outcome.value

\* The ledger holds a record with an accuracy above 0 among its first n.
HasPositive(n) == \E a \in 1..n : results[a].accuracy > 0

(***************************************************************************)
(* C30: in main, phase 2 and the validation run happen if and only if the  *)
(* ledger holds a record with accuracy above 0 when they are reached.      *)
(* When every trial of phase 1 fails there is no trial of phase 2, no      *)
(* validation run and no best_config_full.json, and main ends without an   *)
(* exception.                                                              *)
(***************************************************************************)
C30_PhasesNeedABest ==
    IsMain =>
       /\ fault = "none"
       /\ Len(callLog) <= 2
       /\ Len(callLog) = 2 => HasPositive(callLog[2].first)
       /\ (pc \in {"validating", "export"} \/ full_config # None
              \/ bestConfigFull # None
              \/ \E f \in configFiles : f.run_id = VALIDATION_RUN_ID)
             => HasPositive(Len(results))
       /\ pc = "done" =>
             IF HasPositive(Len(results))
             THEN /\ Len(callLog) = 2
                  /\ callLog[2].returned
                  /\ full_config # None
                  /\ bestConfigFull = full_config
             ELSE /\ Len(callLog) = 1
                  /\ callLog[1].returned
                  /\ Len(results) = Len(callLog[1].selected)
                  /\ full_config = None
                  /\ bestConfigFull = None
                  /\ \A f \in configFiles : f.run_id # VALIDATION_RUN_ID

\* main has ended after a phase 1 whose four trials all failed, some by
\* timeout and some with a measured 0.0: no phase 2, no validation.
C30_Witness ==
    /\ IsMain
    /\ pc = "done"
    /\ fault = "none"
    /\ Len(callLog) = 1
    /\ Len(results) = 4
    /\ \A a \in 1..4 : results[a].accuracy = 0
    /\ "timeout" \in Range(status)
    /\ "ok" \in Range(status)
    /\ bestConfigFull = None

====
